---- MODULE Spec2Model ----
(***************************************************************************)
(* Hardware wallet registry of the Liana GUI (gui/src/hw.rs): the tracked  *)
(* device list and alias table of HardwareWallets, the scan cycle hw_poll  *)
(* that produces List messages, and the unlock tasks that produce Unlocked *)
(* messages.                                                               *)
(***************************************************************************)
EXTENDS Naturals, Integers, Sequences, FiniteSets, Bags, TLC

(***************************************************************************)
(* Bounds of the model.                                                    *)
(***************************************************************************)
\* List / Error messages produced by hw_refresh and not yet handled by update.
MaxPending == 1
\* Unlock tasks in flight at the same time.
MaxTasks == 2
\* Longest registry list explored (the code never reaches it with three ids).
MaxList == 4
\* Poll requests waiting in the HwMessage channel.
MaxPolls == 2

(***************************************************************************)
(* Value domains.                                                          *)
(***************************************************************************)
None == "None"

\* A faulty hw_poll: poll_ledger is awaited before poll_jade.
ScanOrderLedgerFirst == <<"specter-1", "ledger-1", "jade-1", "jade-2", "bitbox-1">>

\* Session ids, as the scanners format them ("specter-{port}", "jade-{port}",
\* "ledger-{path}-..", "bitbox-{path}-.."), in the order hw_poll runs the
\* scanners and the scanners go through their ports.
ScanOrder == <<"specter-1", "jade-1", "jade-2", "ledger-1", "bitbox-1">>
Ids == {ScanOrder[i] : i \in 1..Len(ScanOrder)}

KindOfId(id) ==
    CASE id = "specter-1" -> "Specter"
      [] id \in {"jade-1", "jade-2"} -> "Jade"
      [] id = "ledger-1" -> "Ledger"
      [] id = "bitbox-1" -> "BitBox02"

Fingerprints == {"FP1", "FP2"}
Labels == {"A", "B"}
Networks == {"Bitcoin", "Testnet"}

\* Option<Version>: <<>> is None, <<major, minor, patch>> is Some.
NoVersion == <<>>
LedgerVersions == {NoVersion, <<2, 1, 0>>}

\* HashMap<Fingerprint, String>: a function to the label or None.
AliasTables == [Fingerprints -> Labels \cup {None}]
EmptyAliases == [f \in Fingerprints |-> None]
AliasGet(aliases, fp) == aliases[fp]

\* Wallets the application may hold (descriptor keys, key aliases and the
\* fingerprints that have a stored HardwareWalletConfig, with its token string:
\* "hex32" is the hex of 32 bytes, as HardwareWalletConfig::new writes it; the
\* struct is deserialized from the settings file, which may hold any string).
WalletNames == {"W1", "W2", "W3"}
WalletOf(w) ==
    CASE w = "W1" ->
           [keys |-> {"FP1"},
            keys_aliases |-> [f \in Fingerprints |-> IF f = "FP1" THEN "A" ELSE None],
            hardware_wallets |-> {"FP1"},
            token |-> [f \in Fingerprints |-> "hex32"]]
      [] w = "W2" ->
           [keys |-> {"FP1", "FP2"},
            keys_aliases |-> [f \in Fingerprints |-> IF f = "FP1" THEN "B" ELSE "A"],
            hardware_wallets |-> {},
            token |-> [f \in Fingerprints |-> "hex32"]]
      [] w = "W3" ->
           [keys |-> {"FP1"},
            keys_aliases |-> [f \in Fingerprints |-> IF f = "FP1" THEN "A" ELSE None],
            hardware_wallets |-> {"FP1"},
            token |-> [f \in Fingerprints |-> "nothex"]]
DescriptorKeys(w) == WalletOf(w).keys

\* Option<String> of a pairing code: <<>> is None, <<s>> is Some(s), s the
\* sequence of the characters.
NoCode == <<>>

(***************************************************************************)
(* enum HardwareWallet.  One record shape for the three variants; a field  *)
(* a variant does not have is None.  device of a Locked record is the      *)
(* content of its Arc<Mutex<Option<LockedDevice>>>.                        *)
(***************************************************************************)
Unsupported(id, kind, version, reason, reason_fp) ==
    [tag |-> "Unsupported", id |-> id, kind |-> kind, fingerprint |-> None,
     version |-> version, registered |-> None, alias |-> None,
     reason |-> reason, reason_fp |-> reason_fp, device |-> None,
     pairing_code |-> NoCode]

Locked(id, kind, device, pairing_code) ==
    [tag |-> "Locked", id |-> id, kind |-> kind, fingerprint |-> None,
     version |-> NoVersion, registered |-> None, alias |-> None,
     reason |-> None, reason_fp |-> None, device |-> device,
     pairing_code |-> pairing_code]

Supported(id, kind, fingerprint, version, registered, alias) ==
    [tag |-> "Supported", id |-> id, kind |-> kind, fingerprint |-> fingerprint,
     version |-> version, registered |-> registered, alias |-> alias,
     reason |-> None, reason_fp |-> None, device |-> None,
     pairing_code |-> NoCode]

\* A faulty fingerprint(): it also answers for an Unsupported record that names one.
FingerprintLeaky(hw) ==
    IF hw.tag = "Supported" THEN hw.fingerprint ELSE hw.reason_fp

\* HardwareWallet::fingerprint
Fingerprint(hw) ==
    IF hw.tag = "Supported" THEN hw.fingerprint ELSE None

\* HardwareWallet::is_supported
IsSupported(hw) == hw.tag = "Supported"

IdsOf(s) == {s[i].id : i \in 1..Len(s)}

Contains(s, x) == \E i \in 1..Len(s) : s[i] = x

(***************************************************************************)
(* HardwareWallets: set_alias, load_aliases, with_wallet, set_network.     *)
(***************************************************************************)
\* A faulty set_alias: the insert without the retain.
SetAliasTableNoRetain(aliases, fg, new_alias) ==
    [aliases EXCEPT ![fg] = new_alias]

\* set_alias, the alias table: retain every other label, then insert (fg, new_alias).
SetAliasTable(aliases, fg, new_alias) ==
    [f \in Fingerprints |->
        IF f = fg THEN new_alias
        ELSE IF aliases[f] = new_alias THEN None ELSE aliases[f]]

\* A faulty loop: the records of another fingerprint that show the alias keep it.
SetAliasListNoClear(list, fg, new_alias) ==
    [i \in 1..Len(list) |->
        IF list[i].tag = "Supported" /\ list[i].fingerprint = fg
        THEN [list[i] EXCEPT !.alias = new_alias]
        ELSE list[i]]

\* set_alias, the loop over the tracked list.
SetAliasList(list, fg, new_alias) ==
    [i \in 1..Len(list) |->
        IF list[i].tag = "Supported"
        THEN IF list[i].fingerprint = fg
             THEN [list[i] EXCEPT !.alias = new_alias]
             ELSE IF list[i].alias = new_alias
                  THEN [list[i] EXCEPT !.alias = None]
                  ELSE list[i]
        ELSE list[i]]

(***************************************************************************)
(* HardwareWallets::update, HardwareWalletMessage::List.                   *)
(***************************************************************************)
\* Faulty variants of the retain: nothing removed, or the test negated.
RetainAll(list, still) == list

RetainInverted(list, still) ==
    SelectSeq(list, LAMBDA hw : ~Contains(still, hw.id))

\* self.list.retain(|hw| still.contains(hw.id()))
Retain(list, still) ==
    SelectSeq(list, LAMBDA hw : Contains(still, hw.id))

\* A faulty reconciliation: the new records are put in front, and nothing is removed.
ReconcilePrepend(list, still, new) == new \o list

\* A faulty reconciliation: the new records are put in front of the kept ones.
ReconcileNewFirst(list, still, new) == new \o Retain(list, still)

\* retain, then self.list.append(&mut new)
ReconcileList(list, still, new) == Retain(list, still) \o new

\* The device of a Locked record taken, and nothing else: what a clone of a
\* handled message holds, and a faulty loop that forgets the alias.
RefreshKeepAlias(hw, aliases) ==
    IF hw.tag = "Locked" THEN [hw EXCEPT !.device = None] ELSE hw

\* A faulty loop: the device of a Locked record is looked at and left in place.
RefreshLeaveDevice(hw, aliases) ==
    IF hw.tag = "Supported"
    THEN [hw EXCEPT !.alias = AliasGet(aliases, hw.fingerprint)]
    ELSE hw

\* One iteration of "for hw in &mut self.list": a Supported record takes its
\* alias from the table, the device of a Locked record is taken.
RefreshRecord(hw, aliases) ==
    CASE hw.tag = "Supported" ->
            [hw EXCEPT !.alias = AliasGet(aliases, hw.fingerprint)]
      [] hw.tag = "Locked" -> [hw EXCEPT !.device = None]
      [] OTHER -> hw

RefreshList(list, aliases) ==
    [i \in 1..Len(list) |-> RefreshRecord(list[i], aliases)]

\* The unlock task the loop dispatches for a Locked record whose device is Some:
\* it captures the record's id, the LockedDevice, self.network and self.wallet.
\* A faulty dispatch: the closure is built without the record's id.
UnlockTaskAnonymous(hw, network, wallet) ==
    [id |-> None, device |-> hw.device, network |-> network, wallet |-> wallet]

UnlockTask(hw, network, wallet) ==
    [id |-> hw.id, device |-> hw.device, network |-> network, wallet |-> wallet]

DispatchedIdx(list) ==
    {i \in 1..Len(list) : list[i].tag = "Locked" /\ list[i].device # None}

DispatchedTasks(list, network, wallet) ==
    LET ts == {UnlockTask(list[i], network, wallet) : i \in DispatchedIdx(list)}
    IN [t \in ts |->
          Cardinality({i \in DispatchedIdx(list) :
                          UnlockTask(list[i], network, wallet) = t})]

(***************************************************************************)
(* HardwareWallets::update, HardwareWalletMessage::Unlocked.               *)
(***************************************************************************)
\* A faulty Err(e) arm: the record is left in the list.
UnlockedErrKeep(list, id) == list

\* Err(e): self.list.retain(|hw| hw.id() != &id)
UnlockedErr(list, id) == SelectSeq(list, LAMBDA hw : hw.id # id)

\* The positions of the Locked records of an id, and of all its records.
LockedIdx(list, id) ==
    {i \in 1..Len(list) : list[i].tag = "Locked" /\ list[i].id = id}

AnyIdx(list, id) == {i \in 1..Len(list) : list[i].id = id}

Min(S) == CHOOSE x \in S : \A y \in S : x <= y

\* Faulty variants of the Ok(hw) arm: hw dropped; hw pushed when no Locked
\* record has its id; hw put in place of a record of any variant.
UnlockedOkIgnored(list, hw, aliases) == list

UnlockedOkUpsert(list, hw, aliases) ==
    IF LockedIdx(list, hw.id) = {} THEN Append(list, hw)
    ELSE [list EXCEPT ![Min(LockedIdx(list, hw.id))] = hw]

UnlockedOkAnyVariant(list, hw, aliases) ==
    IF AnyIdx(list, hw.id) = {} THEN list
    ELSE [list EXCEPT ![Min(AnyIdx(list, hw.id))] = hw]

UnlockedOkTaskAlias(list, hw, aliases) ==
    IF LockedIdx(list, hw.id) = {} THEN list
    ELSE [list EXCEPT ![Min(LockedIdx(list, hw.id))] = hw]

\* Ok(hw): the first Locked record whose id is hw.id() is replaced by hw, and a
\* Supported hw takes its alias from the table; no such record, no change.
UnlockedOk(list, hw, aliases) ==
    IF LockedIdx(list, hw.id) = {} THEN list
    ELSE [list EXCEPT ![Min(LockedIdx(list, hw.id))] =
            IF hw.tag = "Supported"
            THEN [hw EXCEPT !.alias = AliasGet(aliases, hw.fingerprint)]
            ELSE hw]

(***************************************************************************)
(* What a device answers when it is asked.  The answers are inputs: each   *)
(* scan and each unlock task draws one from the sets below, whatever the   *)
(* device answered before and whether or not it is still plugged.          *)
(***************************************************************************)
FpAnswers == {"Err"} \cup Fingerprints
RegisteredAnswers == {"Err", "true", "false"}
PairingCodes == {NoCode, <<<<"A", "B", "\n", "C", "D">>>>}
JadeVersions == {NoVersion}
JadeNetworks == {"Main", "Test", "All"}
JadeLockedStates == {"Locked", "Temp", "Uninit", "Unsaved"}

\* Result<HardwareWallet, HWIError>
NoHw == Unsupported(None, None, NoVersion, None, None)
ResOk(h) == [ok |-> TRUE, hw |-> h]
ResErr == [ok |-> FALSE, hw |-> NoHw]

\* A Jade on a serial port: SerialTransport::new, auth, get_info, get_version,
\* get_master_fingerprint, is_wallet_registered.
JadeBase ==
    [open_ok |-> TRUE, auth_ok |-> TRUE, info_ok |-> TRUE, jade_networks |-> "All",
     jade_state |-> "Ready", jade_version |-> NoVersion, version |-> NoVersion,
     fp |-> "Err", registered |-> "Err"]

JadeInfos ==
    {[JadeBase EXCEPT !.open_ok = FALSE], [JadeBase EXCEPT !.auth_ok = FALSE],
     [JadeBase EXCEPT !.info_ok = FALSE]}
    \cup {[JadeBase EXCEPT !.jade_networks = n, !.jade_state = s, !.jade_version = v] :
            n \in JadeNetworks, s \in JadeLockedStates, v \in JadeVersions}
    \cup {[JadeBase EXCEPT !.jade_networks = n, !.jade_version = v, !.version = v,
                           !.fp = f, !.registered = r] :
            n \in JadeNetworks, v \in JadeVersions,
            f \in FpAnswers \cup {"NetworkMismatch"}, r \in RegisteredAnswers}

\* A faulty handle_jade_device: the lock state is looked at before the
\* network configuration.
HandleJadeLockedFirst(id, net, d, w, keys_aliases) ==
    IF ~d.info_ok THEN ResErr
    ELSE IF d.jade_state \in JadeLockedStates
    THEN ResOk(Locked(id, "Jade", "Jade", NoCode))
    ELSE IF \/ (net = "Bitcoin" /\ d.jade_networks # "Main" /\ d.jade_networks # "All")
            \/ (net # "Bitcoin" /\ d.jade_networks = "Main")
            \/ d.fp = "NetworkMismatch"
    THEN ResOk(Unsupported(id, "Jade", d.jade_version, "WrongNetwork", None))
    ELSE IF d.fp = "Err" THEN ResErr
    ELSE IF w # None
    THEN IF d.fp \in DescriptorKeys(w)
         THEN IF d.registered = "Err" THEN ResErr
              ELSE ResOk(Supported(id, "Jade", d.fp, d.version, d.registered,
                                   AliasGet(keys_aliases, d.fp)))
         ELSE ResOk(Unsupported(id, "Jade", d.version, "NotPartOfWallet", d.fp))
    ELSE ResOk(Supported(id, "Jade", d.fp, d.version, "false",
                         AliasGet(keys_aliases, d.fp)))

\* async fn handle_jade_device; keys_aliases None is the empty table.
HandleJadeDevice(id, net, d, w, keys_aliases) ==
    IF ~d.info_ok THEN ResErr
    ELSE IF \/ (net = "Bitcoin" /\ d.jade_networks # "Main" /\ d.jade_networks # "All")
            \/ (net # "Bitcoin" /\ d.jade_networks = "Main")
    THEN ResOk(Unsupported(id, "Jade", d.jade_version, "WrongNetwork", None))
    ELSE IF d.jade_state \in JadeLockedStates
    THEN ResOk(Locked(id, "Jade", "Jade", NoCode))
    ELSE IF d.fp = "NetworkMismatch"
    THEN ResOk(Unsupported(id, "Jade", d.version, "WrongNetwork", None))
    ELSE IF d.fp = "Err" THEN ResErr
    ELSE IF w # None
    THEN IF d.fp \in DescriptorKeys(w)
         THEN IF d.registered = "Err" THEN ResErr
              ELSE ResOk(Supported(id, "Jade", d.fp, d.version, d.registered,
                                   AliasGet(keys_aliases, d.fp)))
         ELSE ResOk(Unsupported(id, "Jade", d.version, "NotPartOfWallet", d.fp))
    ELSE ResOk(Supported(id, "Jade", d.fp, d.version, "false",
                         AliasGet(keys_aliases, d.fp)))

\* One port of poll_jade, its id not in connected_supported_hws: the records
\* pushed to state.hws.
PollJadePort(id, st, d) ==
    IF ~d.open_ok THEN <<>>
    ELSE LET r == HandleJadeDevice(id, st.network, d, st.wallet, st.keys_aliases)
         IN IF r.ok THEN <<r.hw>> ELSE <<>>

\* A faulty ledger_version_supported: the minor number is not looked at.
LedgerVersionMajorOnly(version) ==
    IF version # NoVersion THEN version[1] >= 2 ELSE FALSE

\* fn ledger_version_supported
LedgerVersionSupported(version) ==
    IF version # NoVersion
    THEN IF version[1] >= 2
         THEN IF version[1] = 2 THEN version[2] >= 1 ELSE TRUE
         ELSE FALSE
    ELSE FALSE

\* A Ledger on HID: connect, get_master_fingerprint, get_version.
LedgerBase == [connect |-> "Ok", fp |-> "Err", version |-> NoVersion]
LedgerAnswers ==
    {[LedgerBase EXCEPT !.connect = c] : c \in {"DeviceNotFound", "Err"}}
    \cup {LedgerBase}
    \cup {[LedgerBase EXCEPT !.fp = f, !.version = v] :
            f \in Fingerprints, v \in LedgerVersions}

\* A faulty poll_ledger: the stored tokens of the wallet are not looked up.
PollLedgerNoLookup(id, st, d) ==
    IF d.connect # "Ok" THEN <<>>
    ELSE IF d.fp = "Err"
    THEN <<Unsupported(id, "Ledger", NoVersion, "Version", None)>>
    ELSE IF LedgerVersionSupported(d.version)
    THEN <<Supported(id, "Ledger", d.fp, d.version, "false",
                     AliasGet(st.keys_aliases, d.fp))>>
    ELSE <<Unsupported(id, "Ledger", d.version, "Version", None)>>

\* One detected device of poll_ledger, its id not in connected_supported_hws.
PollLedgerDevice(id, st, d) ==
    IF d.connect # "Ok" THEN <<>>
    ELSE IF d.fp = "Err"
    THEN <<Unsupported(id, "Ledger", NoVersion, "Version", None)>>
    ELSE IF LedgerVersionSupported(d.version)
    THEN LET registered ==
                 IF st.wallet # None /\ d.fp \in WalletOf(st.wallet).hardware_wallets
                 THEN "true" ELSE "false"
         IN <<Supported(id, "Ledger", d.fp, d.version, registered,
                        AliasGet(st.keys_aliases, d.fp))>>
    ELSE <<Unsupported(id, "Ledger", d.version, "Version", None)>>

\* poll_ledger_simulator: the classification of poll_ledger, on the device of
\* LedgerSimulator::try_connect, with the id "ledger-simulator".
PollLedgerSimulator(st, d) ==
    LET r == PollLedgerDevice("ledger-simulator", st, d)
    IN [i \in 1..Len(r) |-> [r[i] EXCEPT !.kind = "LedgerSimulator"]]

\* HardwareWalletConfig::token: Vec::from_hex(..).unwrap() and copy_from_slice
\* into [u8; 32] panic unless the string is the hex of exactly 32 bytes.
TokenPanics(token) == token # "hex32"

\* poll_ledger: cfg.token() is evaluated for the configuration found for the
\* fingerprint of a device with a supported version.
PollLedgerPanics(st, d) ==
    /\ d.connect = "Ok" /\ d.fp \in Fingerprints
    /\ LedgerVersionSupported(d.version)
    /\ st.wallet # None
    /\ d.fp \in WalletOf(st.wallet).hardware_wallets
    /\ TokenPanics(WalletOf(st.wallet).token[d.fp])

\* A device behind the HWI trait (Specter, Specter simulator, Coldcard): it is
\* opened, a Specter has to answer within 500 ms, and HardwareWallet::new asks
\* get_master_fingerprint and get_version.
HwiBase == [open |-> "Ok", alive |-> TRUE, fp |-> "Err", version |-> NoVersion]
HwiAnswers ==
    {[HwiBase EXCEPT !.open = c] : c \in {"DeviceNotFound", "Err"}}
    \cup {[HwiBase EXCEPT !.alive = FALSE]}
    \cup {[HwiBase EXCEPT !.fp = f, !.version = v] :
            f \in FpAnswers, v \in LedgerVersions}

\* A faulty constructor: a fingerprint that cannot be read gives an
\* Unsupported record instead of an error.
HardwareWalletNewReportsFailure(id, kind, d, keys_aliases) ==
    IF d.fp = "Err" THEN ResOk(Unsupported(id, kind, NoVersion, "Version", None))
    ELSE ResOk(Supported(id, kind, d.fp, d.version, None, AliasGet(keys_aliases, d.fp)))

\* HardwareWallet::new
HardwareWalletNew(id, kind, d, keys_aliases) ==
    IF d.fp = "Err" THEN ResErr
    ELSE ResOk(Supported(id, kind, d.fp, d.version, None, AliasGet(keys_aliases, d.fp)))

\* One device of poll_specter_simulator, poll_specter or handle_coldcard, its
\* id not in connected_supported_hws: the records pushed to state.hws.
PollHwiDevice(id, kind, st, d) ==
    IF d.open # "Ok" \/ ~d.alive THEN <<>>
    ELSE LET r == HardwareWalletNew(id, kind, d, st.keys_aliases)
         IN IF r.ok THEN <<r.hw>> ELSE <<>>

\* A BitBox02 on HID: open_device and PairingBitbox02::connect, then in the
\* unlock task wait_confirm, get_master_fingerprint, with_policy and
\* is_policy_registered.
BitboxBase ==
    [open_ok |-> TRUE, pairing_code |-> NoCode, confirm_ok |-> TRUE, fp |-> "Err",
     policy_ok |-> TRUE, registered |-> "Err"]
BitboxAnswers ==
    {[BitboxBase EXCEPT !.open_ok = FALSE], [BitboxBase EXCEPT !.confirm_ok = FALSE]}
    \cup {[BitboxBase EXCEPT !.pairing_code = c] : c \in PairingCodes}
    \cup {[BitboxBase EXCEPT !.fp = f, !.policy_ok = FALSE] : f \in Fingerprints}
    \cup {[BitboxBase EXCEPT !.fp = f, !.registered = r] :
            f \in Fingerprints, r \in RegisteredAnswers}

\* device.pairing_code().map(|s| s.replace('\n', " "))
FormatPairingCode(code) ==
    [k \in 1..Len(code) |->
        [i \in 1..Len(code[k]) |-> IF code[k][i] = "\n" THEN " " ELSE code[k][i]]]

\* fn handle_bitbox02, the id not in connected_supported_hws.
HandleBitbox02(id, st, d) ==
    IF d.open_ok
    THEN <<Locked(id, "BitBox02", "BitBox02", FormatPairingCode(d.pairing_code))>>
    ELSE <<>>

\* The task update dispatches for LockedDevice::BitBox02.
UnlockBitbox(t, d) ==
    IF ~d.confirm_ok \/ d.fp = "Err" THEN ResErr
    ELSE IF t.wallet # None
    THEN IF ~d.policy_ok \/ d.registered = "Err" THEN ResErr
         ELSE IF d.fp \in DescriptorKeys(t.wallet)
         THEN ResOk(Supported(t.id, "BitBox02", d.fp, NoVersion, d.registered, None))
         ELSE ResOk(Unsupported(t.id, "BitBox02", NoVersion, "NotPartOfWallet", d.fp))
    ELSE ResOk(Supported(t.id, "BitBox02", d.fp, NoVersion, "false", None))

\* The task update dispatches for LockedDevice::Jade.
UnlockJade(t, d) ==
    IF ~d.auth_ok THEN ResErr
    ELSE HandleJadeDevice(t.id, t.network, d, t.wallet, EmptyAliases)

\* The results an unlock task may deliver.
UnlockResults(t) ==
    IF t.device = "BitBox02"
    THEN {UnlockBitbox(t, d) : d \in BitboxAnswers}
    ELSE {UnlockJade(t, d) : d \in JadeInfos}

(***************************************************************************)
(* is_compatible_with_tapminiscript.                                       *)
(***************************************************************************)
DeviceKinds ==
    {"BitBox02", "Coldcard", "Specter", "SpecterSimulator", "Ledger",
     "LedgerSimulator", "Jade"}

\* Version numbers explored, and the versions made of them.
VersionParts == {0, 1, 2, 3, 6, 9, 99}
Versions == {NoVersion} \cup {<<a, b, c>> : a \in VersionParts, b \in VersionParts,
                                            c \in VersionParts}

\* v1 >= v2 of Version (derived ordering: major, then minor, then patch).
VersionGE(v1, v2) ==
    IF v1[1] # v2[1] THEN v1[1] > v2[1]
    ELSE IF v1[2] # v2[2] THEN v1[2] > v2[2]
    ELSE v1[3] >= v2[3]

\* A faulty ordering: the minimum itself is refused.
VersionGT(v1, v2) == v1 # v2 /\ VersionGE(v1, v2)

\* const DEVICES_COMPATIBLE_WITH_TAPMINISCRIPT: (kind, minimal version).
DEVICES_COMPATIBLE_WITH_TAPMINISCRIPT ==
    << <<"Ledger", <<2, 2, 0>> >>, <<"Specter", NoVersion>>,
       <<"SpecterSimulator", NoVersion>>, <<"Coldcard", <<6, 3, 3>> >> >>

\* A faulty is_compatible_with_tapminiscript: an unknown version is refused
\* for every kind.
IsCompatibleKnownVersionOnly(device_kind, version) ==
    \E i \in 1..Len(DEVICES_COMPATIBLE_WITH_TAPMINISCRIPT) :
        LET kind == DEVICES_COMPATIBLE_WITH_TAPMINISCRIPT[i][1]
            minimal_version == DEVICES_COMPATIBLE_WITH_TAPMINISCRIPT[i][2]
        IN /\ device_kind = kind
           /\ version # NoVersion
           /\ (minimal_version # NoVersion => VersionGE(version, minimal_version))

\* A faulty is_compatible_with_tapminiscript: v1 > v2.
IsCompatibleAboveMinimum(device_kind, version) ==
    \E i \in 1..Len(DEVICES_COMPATIBLE_WITH_TAPMINISCRIPT) :
        LET kind == DEVICES_COMPATIBLE_WITH_TAPMINISCRIPT[i][1]
            minimal_version == DEVICES_COMPATIBLE_WITH_TAPMINISCRIPT[i][2]
        IN /\ device_kind = kind
           /\ CASE version # NoVersion /\ minimal_version # NoVersion ->
                       VersionGT(version, minimal_version)
                [] version = NoVersion /\ minimal_version # NoVersion -> FALSE
                [] OTHER -> TRUE

\* pub fn is_compatible_with_tapminiscript
IsCompatibleWithTapminiscript(device_kind, version) ==
    \E i \in 1..Len(DEVICES_COMPATIBLE_WITH_TAPMINISCRIPT) :
        LET kind == DEVICES_COMPATIBLE_WITH_TAPMINISCRIPT[i][1]
            minimal_version == DEVICES_COMPATIBLE_WITH_TAPMINISCRIPT[i][2]
        IN /\ device_kind = kind
           /\ CASE version # NoVersion /\ minimal_version # NoVersion ->
                       VersionGE(version, minimal_version)
                [] version = NoVersion /\ minimal_version # NoVersion -> FALSE
                [] version # NoVersion /\ minimal_version = NoVersion -> TRUE
                [] version = NoVersion /\ minimal_version = NoVersion -> TRUE

(***************************************************************************)
(* State.                                                                  *)
(***************************************************************************)
VARIABLES
    plugged,      \* the session ids physically connected now
    hw,           \* HwState, owned by the poll loop
    listQ,        \* messages hw_refresh returned, not yet handled by update
    tasks,        \* bag of the unlock tasks in flight
    network,      \* HardwareWallets.network
    list,         \* HardwareWallets.list
    aliases,      \* HardwareWallets.aliases
    wallet,       \* HardwareWallets.wallet (None or a wallet name)
    last,         \* the step just taken, if a registry operation: arguments and return
    prevList,     \* HardwareWallets.list before the step just taken
    prevAliases,  \* HardwareWallets.aliases before the update or set_alias just run
    lastSetAlias, \* <<fg, alias>> of the last set_alias while the table is as it left it
    loadedOneToOne, \* no table given to with_wallet / load_aliases repeated a label
    poller,       \* the poll loop: the HwMessage channel and the hw_refresh calls
    modal         \* the ExportModal and the export task its subscription runs

vars == <<plugged, hw, listQ, tasks, network, list, aliases, wallet, last,
          prevList, prevAliases, lastSetAlias, loadedOneToOne, poller, modal>>
world == <<plugged>>
registry == <<network, list, aliases, wallet>>
history == <<last, prevList, prevAliases, lastSetAlias, loadedOneToOne>>

\* The progress values an export task reports.
ProgressSteps == 2

\* ExportModal::new, and no export task yet.  task: the task the subscription
\* spawns ("none", "running", "aborted", "done"); sent: its
\* ExportProgress::Started(handle) message has been handled.
NewModal ==
    [path |-> None, handle |-> None, state |-> "Init", progress |-> 0,
     error |-> FALSE, task |-> "none", sent |-> FALSE]

OneToOne(tbl) ==
    \A f, g \in Fingerprints : (f # g /\ tbl[f] # None) => tbl[f] # tbl[g]

\* The record of the last registry operation.
Op(name, ret) ==
    [op |-> name, ret |-> ret, still |-> <<>>, new |-> <<>>, id |-> None,
     res |-> ResErr, fg |-> None, alias |-> None, network |-> None,
     scanned |-> <<>>,
     task |-> [id |-> None, device |-> None, network |-> None, wallet |-> None]]

\* A step that is no registry operation leaves nothing to compare.
Idle ==
    /\ last' = Op("none", "Ok")
    /\ prevList' = list /\ prevAliases' = aliases
    /\ UNCHANGED <<lastSetAlias, loadedOneToOne>>

(***************************************************************************)
(* The scan cycle: hw_poll.                                                *)
(***************************************************************************)
\* What a scanner leaves for one id: state.still, state.hws, whether it
\* panicked, and the ids it enumerated.
Scanned(still, hws) ==
    [still |-> still, hws |-> hws, panic |-> FALSE, hang |-> FALSE, seen |-> <<>>]

\* poll_jade awaits handle_jade_device, whose first step is
\* device.get_info().await, under no timeout: whether the call returns on a
\* port where nothing answers is up to the transport, it may never return.
JadeProbeMayHang(silent) == silent

\* The candidate serial ports on which nothing ever answers.
MutePorts == {"jade-2"}

\* What one id contributes to state.still and state.hws; a scanner enumerates
\* an id once in a cycle, and only while the device is plugged.
ScanOutcomes(id, st) ==
    IF id \notin plugged THEN {Scanned(<<>>, <<>>)}
    ELSE {[o EXCEPT !.seen = <<id>>] : o \in
            IF Contains(st.connected_supported_hws, id) THEN {Scanned(<<id>>, <<>>)}
            ELSE CASE KindOfId(id) = "Specter" ->
                        {Scanned(<<>>, PollHwiDevice(id, "Specter", st, d)) :
                           d \in HwiAnswers}
                   [] KindOfId(id) = "Jade" /\ id \in MutePorts ->
                        {[Scanned(<<>>, <<>>) EXCEPT !.hang = h] :
                           h \in {FALSE, JadeProbeMayHang(TRUE)}}
                   [] KindOfId(id) = "Jade" /\ id \notin MutePorts ->
                        {Scanned(<<>>, PollJadePort(id, st, d)) : d \in JadeInfos}
                   [] KindOfId(id) = "Ledger" ->
                        {[Scanned(<<>>, PollLedgerDevice(id, st, d))
                            EXCEPT !.panic = PollLedgerPanics(st, d)] :
                           d \in LedgerAnswers}
                   [] KindOfId(id) = "BitBox02" ->
                        {Scanned(<<>>, HandleBitbox02(id, st, d)) : d \in BitboxAnswers}}

\* A faulty hw_poll: no record is downgraded.
DowngradeNothing(hws, w) == hws

\* hw_poll: a Supported record whose fingerprint is not a key of state.wallet
\* becomes Unsupported(NotPartOfWallet).
Downgrade(hws, w) ==
    [i \in 1..Len(hws) |->
        IF w # None /\ hws[i].tag = "Supported"
           /\ hws[i].fingerprint \notin DescriptorKeys(w)
        THEN Unsupported(hws[i].id, hws[i].kind, hws[i].version,
                         "NotPartOfWallet", hws[i].fingerprint)
        ELSE hws[i]]

\* A faulty bookkeeping: only the ids of the records scanned in this cycle
\* are remembered.
ConnectedSupportedNewOnly(still, hws) ==
    LET keep == SelectSeq(hws, LAMBDA h : h.tag \in {"Locked", "Supported"})
    IN [i \in 1..Len(keep) |-> keep[i].id]

\* hw_poll: connected_supported_hws = still, then the ids of the Locked and
\* Supported records of hws.
ConnectedSupported(still, hws) ==
    LET keep == SelectSeq(hws, LAMBDA h : h.tag \in {"Locked", "Supported"})
    IN still \o [i \in 1..Len(keep) |-> keep[i].id]

ListMsg(still, new) == [type |-> "List", still |-> still, new |-> new]
ErrorMsg == [type |-> "Error", still |-> <<>>, new |-> <<>>]

\* The scanners of hw_poll, run one after the other over the first k ids: what
\* they leave in state.still and state.hws.  After a panic no scanner runs.
RECURSIVE ScanFirst(_, _)
ScanFirst(k, st) ==
    IF k = 0 THEN {Scanned(<<>>, <<>>)}
    ELSE LET before == ScanFirst(k - 1, st)
         IN {p \in before : p.panic \/ p.hang}
            \cup {[still |-> p.still \o o.still, hws |-> p.hws \o o.hws,
                   panic |-> o.panic, hang |-> o.hang, seen |-> p.seen \o o.seen] :
                    p \in {q \in before : ~q.panic /\ ~q.hang},
                    o \in ScanOutcomes(ScanOrder[k], st)}

\* The poll loop at rest: no Poll request in the channel, HwState in the hands
\* of the caller of hw_refresh, no call of hw_refresh in progress.
IdlePoller ==
    [polls |-> <<>>, dest |-> None, owned |-> TRUE, waiting |-> 0, scanning |-> 0,
     panicked |-> FALSE, hung |-> FALSE]

\* What a cycle leaves in last: nothing when it is taken as a single step, the
\* message type and the ids enumerated when it is run by hw_refresh.
CycleNote(by_refresh, type, seen) ==
    IF by_refresh THEN [Op("hw_refresh", type) EXCEPT !.scanned = seen]
    ELSE Op("none", "Ok")

\* A faulty hw_poll: the vectors moved into the message are left in the state.
LeftBehind(moved) == moved

\* (state.hws, state.still) = (Vec::new(), Vec::new()): what hw_poll leaves in
\* a vector it has moved into the message.
TakenOut(moved) == <<>>

\* hw_poll, from the HidApi to the returned message and HwState.  loop[aborted]
\* is what the step leaves in poller; aborted: a scanner panicked, and neither
\* a message nor the HwState comes back.
HwPollCycle(by_refresh, loop) ==
    /\ ~poller.panicked /\ ~poller.hung
    /\ Len(listQ) < MaxPending
    /\ \E apiOk \in (IF hw.api = "Some" THEN {TRUE} ELSE BOOLEAN) :
          IF ~apiOk
          THEN /\ listQ' = Append(listQ, ErrorMsg)
               /\ hw' = hw
               /\ last' = CycleNote(by_refresh, "Error", <<>>)
               /\ poller' = loop[FALSE]
          ELSE \E s \in ScanFirst(Len(ScanOrder), hw) :
                 IF s.panic
                 THEN /\ listQ' = listQ
                      /\ hw' = hw
                      /\ last' = CycleNote(by_refresh, "None", s.seen)
                      /\ poller' = loop[TRUE]
                 ELSE IF s.hang
                 THEN /\ listQ' = listQ
                      /\ hw' = hw
                      /\ last' = CycleNote(by_refresh, "None", s.seen)
                      /\ poller' = [poller EXCEPT !.hung = TRUE]
                 ELSE LET hws == Downgrade(hw.hws \o s.hws, hw.wallet)
                          still == hw.still \o s.still
                      IN /\ listQ' = Append(listQ, ListMsg(still, hws))
                         /\ hw' = [hw EXCEPT
                                     !.connected_supported_hws =
                                         ConnectedSupported(still, hws),
                                     !.api = "Some", !.hws = TakenOut(hws),
                                     !.still = TakenOut(still)]
                         /\ last' = CycleNote(by_refresh, "List", s.seen)
                         /\ poller' = loop[FALSE]
    /\ prevList' = list /\ prevAliases' = aliases
    /\ UNCHANGED <<modal, world, tasks, registry, lastSetAlias, loadedOneToOne>>

\* One scan cycle, taken as a single step.
HwPoll ==
    HwPollCycle(FALSE, [aborted \in BOOLEAN |-> [poller EXCEPT !.panicked = aborted]])

(***************************************************************************)
(* The poll loop: poll_hw and hw_refresh.                                  *)
(***************************************************************************)
\* A faulty loop: hw_refresh is entered whoever holds the HwState.
HoldsStateAlways(p) == TRUE

\* hw_refresh takes the HwState by value: only who holds it can call, and who
\* called holds it again when the call returns it.
HoldsState(p) == p.owned

\* enum Destination.
Destinations == {"Installer", "SettingsWallet", "Receive", "Psbt"}

\* poll_hw: sender.send(HwMessage::Poll(dest)), from any sender.
PollHw(dest) ==
    /\ Len(poller.polls) < MaxPolls
    /\ poller' = [poller EXCEPT !.polls = Append(@, dest)]
    /\ Idle
    /\ UNCHANGED <<modal, world, hw, listQ, tasks, registry>>

\* hw_refresh is called with the HwState and blocks in receiver.recv().
HwRefreshCall ==
    /\ ~poller.panicked
    /\ HoldsState(poller)
    /\ poller' = [poller EXCEPT !.owned = FALSE, !.waiting = @ + 1]
    /\ Idle
    /\ UNCHANGED <<modal, world, hw, listQ, tasks, registry>>

\* receiver.recv() returns a Poll request: hw_poll starts.
HwRefreshRecv ==
    /\ poller.waiting > 0 /\ poller.polls # <<>>
    /\ poller' = [poller EXCEPT !.polls = Tail(@), !.dest = Head(poller.polls),
                                 !.waiting = @ - 1, !.scanning = @ + 1]
    /\ Idle
    /\ UNCHANGED <<modal, world, hw, listQ, tasks, registry>>

\* "match dest" in hw_refresh: Destination::Installer wraps the message, the
\* three other arms are todo!().
Routed(dest) == dest = "Installer"

\* hw_poll runs to its end; hw_refresh then returns the message and the
\* HwState, or panics in "match dest" and returns neither.
HwRefreshReturn ==
    /\ poller.scanning > 0
    /\ IF Routed(poller.dest)
       THEN HwPollCycle(TRUE, [aborted \in BOOLEAN |->
                                   [poller EXCEPT !.scanning = @ - 1,
                                                  !.dest = None,
                                                  !.owned = ~aborted,
                                                  !.panicked = aborted]])
       ELSE /\ poller' = [poller EXCEPT !.scanning = @ - 1, !.dest = None,
                                         !.panicked = TRUE]
            /\ last' = CycleNote(TRUE, "None", <<>>)
            /\ prevList' = list /\ prevAliases' = aliases
            /\ UNCHANGED <<modal, world, hw, listQ, tasks, registry, lastSetAlias,
                           loadedOneToOne>>

(***************************************************************************)
(* The physical world.                                                     *)
(***************************************************************************)
Plug(id) ==
    /\ id \notin plugged
    /\ plugged' = plugged \cup {id}
    /\ Idle
    /\ UNCHANGED <<modal, hw, poller, listQ, tasks, registry>>

Unplug(id) ==
    /\ id \in plugged
    /\ plugged' = plugged \ {id}
    /\ Idle
    /\ UNCHANGED <<modal, hw, poller, listQ, tasks, registry>>

(***************************************************************************)
(* HardwareWallets::update and the other registry operations.              *)
(***************************************************************************)
\* What update returns: Err for an Error message, Ok(Command) for the others.
UpdateReturn(type) == IF type = "Error" THEN "Err" ELSE "Ok"

\* update(HardwareWalletMessage::Error(e)).
UpdateError ==
    /\ listQ # <<>> /\ Head(listQ).type = "Error"
    /\ listQ' = Tail(listQ)
    /\ last' = Op("Error", UpdateReturn("Error"))
    /\ prevList' = list /\ prevAliases' = aliases
    /\ UNCHANGED <<modal, world, poller, hw, tasks, registry, lastSetAlias, loadedOneToOne>>

\* update(HardwareWalletMessage::List(ConnectedList { still, new })).
UpdateList ==
    /\ listQ # <<>> /\ Head(listQ).type = "List"
    /\ LET m == Head(listQ)
           merged == ReconcileList(list, m.still, m.new)
       IN /\ Len(merged) <= MaxList
          /\ tasks' = tasks (+) DispatchedTasks(merged, network, wallet)
          /\ BagCardinality(tasks') <= MaxTasks
          /\ list' = RefreshList(merged, aliases)
          /\ last' = [Op("List", UpdateReturn("List")) EXCEPT
                        !.still = m.still, !.new = m.new]
    /\ listQ' = Tail(listQ)
    /\ prevList' = list /\ prevAliases' = aliases
    /\ UNCHANGED <<modal, world, poller, hw, network, aliases, wallet, lastSetAlias, loadedOneToOne>>

\* update(HardwareWalletMessage::Unlocked(id, res)): the completion of task t.
Unlocked(t, res) ==
    /\ tasks' = tasks (-) SetToBag({t})
    /\ list' = IF res.ok THEN UnlockedOk(list, res.hw, aliases)
               ELSE UnlockedErr(list, t.id)
    /\ Len(list') <= MaxList
    /\ last' = [Op("Unlocked", UpdateReturn("Unlocked")) EXCEPT
                  !.id = t.id, !.res = res, !.task = t]
    /\ prevList' = list /\ prevAliases' = aliases
    /\ UNCHANGED <<modal, world, poller, hw, listQ, network, aliases, wallet, lastSetAlias,
                   loadedOneToOne>>

SetAlias(fg, new_alias) ==
    /\ aliases' = SetAliasTable(aliases, fg, new_alias)
    /\ list' = SetAliasList(list, fg, new_alias)
    /\ last' = [Op("set_alias", "Ok") EXCEPT !.fg = fg, !.alias = new_alias]
    /\ lastSetAlias' = <<fg, new_alias>>
    /\ prevList' = list /\ prevAliases' = aliases
    /\ UNCHANGED <<modal, world, poller, hw, listQ, tasks, network, wallet, loadedOneToOne>>

LoadAliases(tbl) ==
    /\ aliases' = tbl
    /\ last' = Op("load_aliases", "Ok")
    /\ lastSetAlias' = <<>>
    /\ loadedOneToOne' = OneToOne(tbl)
    /\ prevList' = list /\ prevAliases' = aliases'
    /\ UNCHANGED <<modal, world, poller, hw, listQ, tasks, network, list, wallet>>

WithWallet(w) ==
    /\ aliases' = WalletOf(w).keys_aliases
    /\ wallet' = w
    /\ last' = Op("with_wallet", "Ok")
    /\ lastSetAlias' = <<>>
    /\ loadedOneToOne' = OneToOne(WalletOf(w).keys_aliases)
    /\ prevList' = list /\ prevAliases' = aliases'
    /\ UNCHANGED <<modal, world, poller, hw, listQ, tasks, network, list>>

\* A faulty set_network: it drops the classified records only.
SetNetworkKeepLocked(l) == SelectSeq(l, LAMBDA h : h.tag = "Locked")

\* set_network: self.list = Vec::new()
SetNetworkList(l) == <<>>

SetNetwork(n) ==
    /\ network' = n
    /\ list' = SetNetworkList(list)
    /\ last' = [Op("set_network", "Ok") EXCEPT !.network = n]
    /\ prevList' = list /\ prevAliases' = aliases
    /\ UNCHANGED <<modal, world, poller, hw, listQ, tasks, aliases, wallet, lastSetAlias,
                   loadedOneToOne>>

\* The application switches to wallet w between two cycles, when no scan
\* result waits to be handled: with_wallet on the registry, and the wallet and
\* key aliases of the HwState it hands to hw_refresh.
ReloadWallet(w) ==
    /\ listQ = <<>>
    /\ poller.owned
    /\ hw' = [hw EXCEPT !.wallet = w, !.keys_aliases = WalletOf(w).keys_aliases]
    /\ aliases' = WalletOf(w).keys_aliases
    /\ wallet' = w
    /\ last' = Op("with_wallet", "Ok")
    /\ lastSetAlias' = <<>>
    /\ loadedOneToOne' = OneToOne(WalletOf(w).keys_aliases)
    /\ prevList' = list /\ prevAliases' = aliases'
    /\ UNCHANGED <<modal, world, poller, listQ, tasks, network, list>>

\* The classification of one device taken alone, its answers kept in last:
\* the operation, the answers d, whether an error was returned, and the
\* records produced (for a scan: what the cycle's List message reports).
Classified(name, id, d, ok, hws) ==
    [op |-> name, id |-> id, probe |-> d, ok |-> ok, hws |-> hws]

ClassifyFrame ==
    UNCHANGED <<modal, world, poller, hw, listQ, tasks, registry, prevList, prevAliases,
                lastSetAlias, loadedOneToOne>>

\* The answers of a Ledger, over all the versions explored.
LedgerProbes ==
    {[LedgerBase EXCEPT !.connect = c] : c \in {"DeviceNotFound", "Err"}}
    \cup {LedgerBase}
    \cup {[LedgerBase EXCEPT !.fp = f, !.version = v] :
            f \in Fingerprints, v \in Versions}

\* poll_ledger and the downgrade of hw_poll, on an untracked Ledger.
ScanLedger(d) ==
    /\ ~PollLedgerPanics(hw, d)
    /\ last' = Classified("poll_ledger", "ledger-1", d, TRUE,
                          Downgrade(PollLedgerDevice("ledger-1", hw, d), hw.wallet))
    /\ ClassifyFrame

\* poll_ledger_simulator and the downgrade of hw_poll.
ScanLedgerSimulator(d) ==
    /\ ~PollLedgerPanics(hw, d)
    /\ last' = Classified("poll_ledger_simulator", "ledger-simulator", d, TRUE,
                          Downgrade(PollLedgerSimulator(hw, d), hw.wallet))
    /\ ClassifyFrame

\* poll_jade and the downgrade of hw_poll, on an untracked port.
ScanJade(d) ==
    /\ last' = Classified("poll_jade", "jade-1", d, TRUE,
                          Downgrade(PollJadePort("jade-1", hw, d), hw.wallet))
    /\ ClassifyFrame

\* poll_specter_simulator, poll_specter or handle_coldcard, and the downgrade
\* of hw_poll.
ScanHwi(kind, d) ==
    /\ last' = Classified("poll_hwi", "hwi-1", d, TRUE,
                          Downgrade(PollHwiDevice("hwi-1", kind, hw, d), hw.wallet))
    /\ ClassifyFrame

\* The unlock task of a Jade, dispatched with the registry's network and
\* wallet, run to its result.
RunUnlockJade(d) ==
    /\ LET t == [id |-> "jade-1", device |-> "Jade", network |-> network,
                 wallet |-> wallet]
           res == UnlockJade(t, d)
       IN last' = Classified("unlock_jade", "jade-1", d, res.ok,
                             IF res.ok THEN <<res.hw>> ELSE <<>>)
    /\ ClassifyFrame

\* The unlock task of a BitBox02 run to its result.
RunUnlockBitbox(d) ==
    /\ LET t == [id |-> "bitbox-1", device |-> "BitBox02", network |-> network,
                 wallet |-> wallet]
           res == UnlockBitbox(t, d)
       IN last' = Classified("unlock_bitbox", "bitbox-1", d, res.ok,
                             IF res.ok THEN <<res.hw>> ELSE <<>>)
    /\ ClassifyFrame

\* is_compatible_with_tapminiscript(&device_kind, version)
AskTapminiscript(device_kind, version) ==
    /\ last' = [op |-> "is_compatible_with_tapminiscript", kind |-> device_kind,
                version |-> version,
                ret |-> IsCompatibleWithTapminiscript(device_kind, version)]
    /\ ClassifyFrame

\* The same List message handled a second time, right after the first: the
\* message is a clone, so its Locked records share the devices already taken.
ReplayList ==
    /\ last.op = "List"
    /\ LET new == [i \in 1..Len(last.new) |-> RefreshKeepAlias(last.new[i], aliases)]
           merged == ReconcileList(list, last.still, new)
       IN /\ Len(merged) <= MaxList
          /\ list' = RefreshList(merged, aliases)
          /\ tasks' = tasks (+) DispatchedTasks(merged, network, wallet)
    /\ last' = [last EXCEPT !.op = "Replay"]
    /\ prevList' = list /\ prevAliases' = aliases
    /\ UNCHANGED <<modal, world, poller, hw, listQ, network, aliases, wallet, lastSetAlias,
                   loadedOneToOne>>

(***************************************************************************)
(* Specifications.                                                         *)
(***************************************************************************)
HwConfigs ==
    {[wallet |-> None, keys_aliases |-> EmptyAliases],
     [wallet |-> "W1", keys_aliases |-> WalletOf("W1").keys_aliases]}

\* HardwareWallets::new and a fresh HwState.
Init ==
    /\ plugged = {}
    /\ \E c \in HwConfigs, n \in {"Bitcoin"} :
          /\ hw = [network |-> n, keys_aliases |-> c.keys_aliases, wallet |-> c.wallet,
                   connected_supported_hws |-> <<>>, api |-> None,
                   hws |-> <<>>, still |-> <<>>]
          /\ network = n
    /\ listQ = <<>>
    /\ tasks = EmptyBag
    /\ list = <<>>
    /\ aliases = EmptyAliases
    /\ wallet = None
    /\ last = Op("new", "Ok")
    /\ prevList = <<>>
    /\ prevAliases = EmptyAliases
    /\ lastSetAlias = <<>>
    /\ loadedOneToOne = TRUE
    /\ poller = IdlePoller
    /\ modal = NewModal

\* The scan cycle, the registry's handling of its messages, and the unlock
\* tasks, with the devices of bench plugged and unplugged at any time.
Devices(bench) ==
    \/ \E id \in bench : Plug(id)
    \/ \E id \in bench : Unplug(id)
    \/ HwPoll
    \/ UpdateError
    \/ UpdateList
    \/ \E t \in BagToSet(tasks) : \E res \in UnlockResults(t) : Unlocked(t, res)

\* Two devices on the bench, no call from the application.
Next == Devices({"jade-1", "ledger-1"})

Spec == Init /\ [][Next]_vars

\* The same, and a List message handled twice in a row.
NextReplay == Next \/ ReplayList

SpecReplay == Init /\ [][NextReplay]_vars

\* One device on the bench, and the application's set_alias and load_aliases.
StoredTables ==
    {EmptyAliases, [f \in Fingerprints |-> "A"],
     [f \in Fingerprints |-> IF f = "FP1" THEN "B" ELSE None]}

NextAlias ==
    \/ Devices({"jade-1"})
    \/ \E fg \in Fingerprints, a \in Labels : SetAlias(fg, a)
    \/ \E tbl \in StoredTables : LoadAliases(tbl)

SpecAlias == Init /\ [][NextAlias]_vars

\* No device: the application's calls on the alias table only.
NextTable ==
    \/ \E fg \in Fingerprints, a \in Labels : SetAlias(fg, a)
    \/ \E tbl \in AliasTables : LoadAliases(tbl)
    \/ \E w \in WalletNames : WithWallet(w)

SpecTable == Init /\ [][NextTable]_vars

\* HardwareWallets::new(..).with_wallet(w), and a fresh HwState of the same
\* wallet.
InitWallet ==
    /\ plugged = {}
    /\ \E w \in {"W1", "W2"} :
          /\ hw = [network |-> "Bitcoin", keys_aliases |-> WalletOf(w).keys_aliases,
                   wallet |-> w, connected_supported_hws |-> <<>>, api |-> None,
                   hws |-> <<>>, still |-> <<>>]
          /\ aliases = WalletOf(w).keys_aliases
          /\ wallet = w
          /\ loadedOneToOne = OneToOne(WalletOf(w).keys_aliases)
    /\ network = "Bitcoin"
    /\ listQ = <<>>
    /\ tasks = EmptyBag
    /\ list = <<>>
    /\ last = Op("with_wallet", "Ok")
    /\ prevList = <<>>
    /\ prevAliases = aliases
    /\ lastSetAlias = <<>>
    /\ poller = IdlePoller
    /\ modal = NewModal

\* One device on the bench, the wallet switched between cycles.
NextWallet ==
    \/ Devices({"jade-1"})
    \/ \E w \in {"W1", "W2"} : ReloadWallet(w)

SpecWallet == InitWallet /\ [][NextWallet]_vars

\* One device on the bench, and the application's set_network.
NextNetwork ==
    \/ Devices({"jade-1"})
    \/ \E n \in Networks : SetNetwork(n)

SpecNetwork == InitWallet /\ [][NextNetwork]_vars

\* One device on a serial port, the scan cycle driven by Poll requests
\* through hw_refresh.
NextLoop ==
    \/ Plug("jade-1")
    \/ Unplug("jade-1")
    \/ PollHw("Installer")
    \/ HwRefreshCall
    \/ HwRefreshRecv
    \/ HwRefreshReturn
    \/ UpdateError
    \/ UpdateList
    \/ \E t \in BagToSet(tasks) : \E res \in UnlockResults(t) : Unlocked(t, res)

SpecLoop == Init /\ [][NextLoop]_vars

\* HardwareWallets::new(..).with_wallet("W3") and a fresh HwState of that
\* wallet, whose stored token for FP1 is not the hex of 32 bytes.
InitStoredToken ==
    /\ plugged = {}
    /\ hw = [network |-> "Bitcoin", keys_aliases |-> WalletOf("W3").keys_aliases,
             wallet |-> "W3", connected_supported_hws |-> <<>>, api |-> None,
             hws |-> <<>>, still |-> <<>>]
    /\ aliases = WalletOf("W3").keys_aliases
    /\ wallet = "W3"
    /\ loadedOneToOne = TRUE
    /\ network = "Bitcoin"
    /\ listQ = <<>>
    /\ tasks = EmptyBag
    /\ list = <<>>
    /\ last = Op("with_wallet", "Ok")
    /\ prevList = <<>>
    /\ prevAliases = aliases
    /\ lastSetAlias = <<>>
    /\ poller = IdlePoller
    /\ modal = NewModal

SpecStoredToken == InitStoredToken /\ [][Next]_vars

\* A registry and a HwState of the same network and wallet (or none).
InitClassify ==
    /\ plugged = {}
    /\ \E n \in Networks, w \in {None, "W1", "W2"} :
          LET ka == IF w = None THEN EmptyAliases ELSE WalletOf(w).keys_aliases
          IN /\ hw = [network |-> n, keys_aliases |-> ka, wallet |-> w,
                      connected_supported_hws |-> <<>>, api |-> None,
                      hws |-> <<>>, still |-> <<>>]
             /\ network = n
             /\ aliases = ka
             /\ wallet = w
             /\ loadedOneToOne = OneToOne(ka)
    /\ listQ = <<>>
    /\ tasks = EmptyBag
    /\ list = <<>>
    /\ last = Op("new", "Ok")
    /\ prevList = <<>>
    /\ prevAliases = aliases
    /\ lastSetAlias = <<>>
    /\ poller = IdlePoller
    /\ modal = NewModal

\* Each device classified alone, once, over the answers it may give.
NextClassify ==
    /\ last.op = "new"
    /\ \/ \E d \in LedgerProbes : ScanLedger(d)
       \/ \E d \in LedgerProbes : ScanLedgerSimulator(d)
       \/ \E d \in JadeInfos : ScanJade(d)
       \/ \E kind \in {"Specter", "SpecterSimulator", "Coldcard"}, d \in HwiAnswers :
             ScanHwi(kind, d)
       \/ \E d \in JadeInfos : RunUnlockJade(d)
       \/ \E d \in BitboxAnswers : RunUnlockBitbox(d)

SpecClassify == InitClassify /\ [][NextClassify]_vars

\* The compatibility table asked for every kind and version.
NextTapminiscript ==
    /\ last.op = "new"
    /\ \E device_kind \in DeviceKinds, version \in Versions :
          AskTapminiscript(device_kind, version)

SpecTapminiscript == Init /\ [][NextTapminiscript]_vars

(***************************************************************************)
(* Properties.                                                             *)
(***************************************************************************)
HasTag(l, id, tags) == \E i \in 1..Len(l) : l[i].id = id /\ l[i].tag \in tags

\* The same tracked record, whatever alias it shows and whether or not its
\* device has been taken.
Core(h) == [h EXCEPT !.alias = None, !.device = None]

\* C1: a List message handled a second time right after the first, nothing in
\* between, leaves the list as the first handling left it: the same records in
\* the same order.
C1_ReplayIdempotent == last.op = "Replay" => list = prevList

\* A replay that had records to keep, records to drop and new records, one a
\* Locked one, to append.
C1_Witness ==
    /\ last.op = "Replay"
    /\ last.still # <<>>
    /\ \E i \in 1..Len(last.new) : last.new[i].tag = "Locked"
    /\ Len(list) > Len(last.new)

\* C2: the list never holds two records with the same session id.
C2_OneRecordPerId ==
    \A i, j \in 1..Len(list) : i # j => list[i].id # list[j].id

\* A reconciliation in which one id was enumerated again and kept through
\* still while another, tracked too, was reported again as new.
C2_Witness ==
    /\ last.op = "List"
    /\ \E i \in 1..Len(prevList) : Contains(last.still, prevList[i].id)
    /\ \E i \in 1..Len(prevList) : prevList[i].id \in IdsOf(last.new)
    /\ Len(list) = 2

\* C3: after a List reconciliation the records that precede the appended new
\* ones are the tracked records whose id is in still: none whose id is absent
\* from still, of whatever variant, and every one whose id is in still.
C3_StillDecides ==
    last.op = "List" =>
        LET n == Len(list) - Len(last.new)
        IN /\ n >= 0
           /\ \A i \in 1..Len(prevList) :
                 IF Contains(last.still, prevList[i].id)
                 THEN \E j \in 1..n : Core(list[j]) = Core(prevList[i])
                 ELSE \A j \in 1..n : list[j].id # prevList[i].id

\* A reconciliation that dropped a Supported record and kept a Locked one.
C3_Witness ==
    /\ last.op = "List"
    /\ \E i \in 1..Len(prevList) :
          /\ prevList[i].tag = "Supported"
          /\ ~Contains(last.still, prevList[i].id)
          /\ ~HasTag(list, prevList[i].id, {"Locked", "Supported", "Unsupported"})
    /\ \E i \in 1..Len(prevList) :
          /\ prevList[i].tag = "Locked"
          /\ Contains(last.still, prevList[i].id)

\* C4: Unlocked(X, Ok(Supported)) for a tracked Locked record of id X leaves
\* exactly one record of id X, Supported with the resolved fingerprint, at the
\* place of the Locked one, and every other record as it was.
C4_UnlockedReplaces ==
    (/\ last.op = "Unlocked" /\ last.res.ok /\ last.res.hw.tag = "Supported"
     /\ LockedIdx(prevList, last.id) # {}) =>
        LET k == Min(LockedIdx(prevList, last.id))
        IN /\ Len(list) = Len(prevList)
           /\ Cardinality(AnyIdx(list, last.id)) = 1
           /\ list[k].id = last.id
           /\ list[k].tag = "Supported"
           /\ list[k].fingerprint = last.res.hw.fingerprint
           /\ \A j \in 1..Len(prevList) : j # k => list[j] = prevList[j]

\* A Locked record unlocked to Supported while another record is tracked.
C4_Witness ==
    /\ last.op = "Unlocked" /\ last.res.ok /\ last.res.hw.tag = "Supported"
    /\ LockedIdx(prevList, last.id) # {}
    /\ Len(list) = 2

\* C5: an Unlocked message, success or failure, whose id no tracked record has
\* changes neither the list nor the alias table, and update returns Ok.
C5_UnknownIdIgnored ==
    (last.op = "Unlocked" /\ AnyIdx(prevList, last.id) = {}) =>
        /\ list = prevList
        /\ aliases = prevAliases
        /\ last.ret = "Ok"

\* A successful completion for an id that is no longer tracked, while another
\* record is.
C5_Witness ==
    /\ last.op = "Unlocked" /\ last.res.ok
    /\ AnyIdx(prevList, last.id) = {}
    /\ prevList # <<>>

\* C6: Unlocked(X, Err) leaves no record of id X, and the records of the other
\* ids as they were and in their order.
C6_FailureDrops ==
    (last.op = "Unlocked" /\ ~last.res.ok) =>
        /\ AnyIdx(list, last.id) = {}
        /\ list = SelectSeq(prevList, LAMBDA h : h.id # last.id)

\* A failed unlock of a tracked Locked record, another record being tracked.
C6_Witness ==
    /\ last.op = "Unlocked" /\ ~last.res.ok
    /\ LockedIdx(prevList, last.id) # {}
    /\ list # <<>>

\* C7: for every tracked record, fingerprint() is Some exactly when
\* is_supported() is true.
C7_FingerprintIffSupported ==
    \A i \in 1..Len(list) : (Fingerprint(list[i]) # None) <=> IsSupported(list[i])

\* A Supported record next to an Unsupported one that names a fingerprint.
C7_Witness ==
    /\ \E i \in 1..Len(list) : list[i].tag = "Supported"
    /\ \E i \in 1..Len(list) : list[i].reason = "NotPartOfWallet"

\* C8: as long as the table is as set_alias(fg, X) left it, it maps fg to X and
\* no other fingerprint to X, and after a List reconciliation every tracked
\* Supported record with fingerprint fg shows alias X.
C8_AliasAfterSet ==
    lastSetAlias # <<>> =>
        LET fg == lastSetAlias[1]
            x == lastSetAlias[2]
        IN /\ aliases[fg] = x
           /\ \A f \in Fingerprints \ {fg} : aliases[f] # x
           /\ last.op = "List" =>
                 \A i \in 1..Len(list) :
                    (list[i].tag = "Supported" /\ list[i].fingerprint = fg)
                        => list[i].alias = x

\* The first reconciliation after a set_alias appends a Supported record of
\* that fingerprint which the scanner had given another alias.
C8_Witness ==
    /\ lastSetAlias # <<>>
    /\ last.op = "List"
    /\ \E i \in 1..Len(last.new) :
          /\ last.new[i].tag = "Supported"
          /\ last.new[i].fingerprint = lastSetAlias[1]
          /\ last.new[i].alias \notin {None, lastSetAlias[2]}
    /\ \E i \in 1..Len(list) :
          list[i].tag = "Supported" /\ list[i].fingerprint = lastSetAlias[1]

\* C9, as claimed: whatever with_wallet, load_aliases and set_alias calls were
\* made, no two fingerprints of the alias table have the same label.
C9_AlwaysOneToOne == OneToOne(aliases)

\* C9, amended: when the table last given to with_wallet or load_aliases, if
\* any, repeated no label, no two fingerprints of the alias table have the
\* same label.
C9_OneToOneKept == loadedOneToOne => OneToOne(aliases)

\* A set_alias that gave a fingerprint the label another fingerprint had.
C9_Witness ==
    /\ loadedOneToOne
    /\ last.op = "set_alias"
    /\ \E f \in Fingerprints \ {last.fg} : prevAliases[f] = last.alias
    /\ aliases[last.fg] = last.alias

\* C10: a step turns the record of an id from Supported or Unsupported into
\* Locked only if it is a List reconciliation that removes the id (it is not in
\* still) and appends it again as new.
C10_OneWay ==
    [][\A id \in Ids :
          (HasTag(list, id, {"Supported", "Unsupported"}) /\ HasTag(list', id, {"Locked"}))
             => (/\ last'.op = "List"
                 /\ ~Contains(last'.still, id)
                 /\ id \in IdsOf(last'.new))]_vars

\* A completion that carries a Locked record arrives for an id whose tracked
\* record is Supported or Unsupported, and leaves it so.
C10_Witness ==
    /\ last.op = "Unlocked" /\ last.res.ok /\ last.res.hw.tag = "Locked"
    /\ HasTag(prevList, last.id, {"Supported", "Unsupported"})
    /\ HasTag(list, last.id, {"Supported", "Unsupported"})

\* C11: after each reconciliation performed while a wallet is set, every
\* tracked Supported record has a fingerprint among the keys of the current
\* wallet, the records kept through the still list included.
C11_NoForeignSupported ==
    (last.op = "List" /\ wallet # None) =>
        \A i \in 1..Len(list) :
            list[i].tag = "Supported" =>
                list[i].fingerprint \in DescriptorKeys(wallet)

\* C18: set_network(n) sets the network to n and empties the list, whatever it
\* held, and leaves the alias table and the wallet as they were.
C18_SetNetworkClears ==
    [][last'.op = "set_network" =>
          /\ network' = last'.network
          /\ list' = <<>>
          /\ aliases' = aliases
          /\ wallet' = wallet]_vars

\* set_network has just emptied a list that held a Locked record, with a
\* wallet and aliases set.
C18_Witness ==
    /\ last.op = "set_network" /\ last.network = "Testnet" /\ network = "Testnet"
    /\ Len(prevList) > 0 /\ prevList[1].tag = "Locked"
    /\ list = <<>>
    /\ wallet # None /\ aliases # EmptyAliases

\* C17: at most one scan cycle is in progress at any time; a cycle starts by
\* taking one Poll request from the channel, and none starts while a call of
\* hw_refresh has not returned the HwState, whatever the number of requests
\* waiting.
C17_OneCycleAtATime ==
    /\ [](/\ poller.scanning + poller.waiting <= 1
          /\ (poller.scanning + poller.waiting = 1) = ~(poller.owned \/ poller.panicked))
    /\ [][poller'.scanning > poller.scanning =>
             /\ poller.scanning = 0
             /\ Len(poller'.polls) = Len(poller.polls) - 1]_vars

\* A cycle is in progress while another Poll request waits in the channel.
C17_Witness ==
    poller.scanning = 1 /\ Len(poller.polls) >= 1

\* C19: a cycle in which the HidApi cannot be initialised reports one Error and
\* still scans the devices on the transports that do not need it: every
\* plugged serial device has been enumerated by its scanner in that cycle.
C19_ErrorCycleStillScans ==
    (last.op = "hw_refresh" /\ last.ret = "Error") =>
        \A id \in plugged : KindOfId(id) = "Jade" => Contains(last.scanned, id)

\* C20: no failure while opening, probing, configuring or classifying one
\* device aborts the cycle: every cycle that has the HidApi ends with a
\* message.
C20_NoDeviceAbortsCycle == ~poller.panicked

\* (major, minor, patch) of v is lexicographically at or above that of m.
LexAtLeast(v, m) ==
    \/ v[1] > m[1]
    \/ v[1] = m[1] /\ v[2] > m[2]
    \/ v[1] = m[1] /\ v[2] = m[2] /\ v[3] >= m[3]

IsScan == last.op \in {"poll_ledger", "poll_ledger_simulator", "poll_jade", "poll_hwi"}
IsUnlock == last.op \in {"unlock_jade", "unlock_bitbox"}

\* The wallet a classification ran with: state.wallet in a scan, the
\* registry's in an unlock task.
WalletUsed == IF IsScan THEN hw.wallet ELSE wallet
NetworkUsed == IF IsScan THEN hw.network ELSE network

\* The Jade's network configuration does not fit the requested network.
JadeNetworkUnfit(net, d) ==
    \/ net = "Bitcoin" /\ d.jade_networks \notin {"Main", "All"}
    \/ net # "Bitcoin" /\ d.jade_networks = "Main"

\* The classification asked the device for its fingerprint and got one.
FingerprintRead ==
    /\ last.probe.fp \in Fingerprints
    /\ CASE last.op \in {"poll_ledger", "poll_ledger_simulator"} ->
               last.probe.connect = "Ok"
         [] last.op = "poll_hwi" -> last.probe.open = "Ok" /\ last.probe.alive
         [] last.op \in {"poll_jade", "unlock_jade"} ->
               /\ last.probe.open_ok /\ last.probe.auth_ok /\ last.probe.info_ok
               /\ ~JadeNetworkUnfit(NetworkUsed, last.probe)
               /\ last.probe.jade_state = "Ready"
         [] last.op = "unlock_bitbox" -> last.probe.confirm_ok

NotPartOfWalletRecord ==
    /\ Len(last.hws) = 1
    /\ last.hws[1].tag = "Unsupported"
    /\ last.hws[1].reason = "NotPartOfWallet"
    /\ last.hws[1].reason_fp = last.probe.fp
    /\ last.hws[1].id = last.id

\* C12 as stated: with a wallet, every device whose fingerprint is read in a
\* scan or an unlock completion and is not a key of the wallet gets the record
\* Unsupported(NotPartOfWallet(fingerprint)), whatever its kind.
C12_AlwaysNotPartOfWallet ==
    ((IsScan \/ IsUnlock) /\ WalletUsed # None /\ FingerprintRead
        /\ last.probe.fp \notin DescriptorKeys(WalletUsed))
    => NotPartOfWalletRecord

\* C12 amended: the same, except that a Ledger whose version is unknown or
\* below 2.1.0 gets Unsupported(Version), and that a BitBox02 whose policy
\* cannot be set or asked ends its unlock task with an error.
C12_NotPartOfWallet ==
    ((IsScan \/ IsUnlock) /\ WalletUsed # None /\ FingerprintRead
        /\ last.probe.fp \notin DescriptorKeys(WalletUsed))
    => CASE last.op \in {"poll_ledger", "poll_ledger_simulator"}
              /\ (last.probe.version = NoVersion
                    \/ ~LexAtLeast(last.probe.version, <<2, 1, 0>>)) ->
                /\ Len(last.hws) = 1
                /\ last.hws[1].tag = "Unsupported"
                /\ last.hws[1].reason = "Version"
         [] last.op = "unlock_bitbox"
              /\ (~last.probe.policy_ok \/ last.probe.registered = "Err") ->
                ~last.ok
         [] OTHER -> NotPartOfWalletRecord

\* A Ledger of version 2.1.0 has answered a fingerprint that is no key of the
\* wallet, and the cycle reports it Unsupported(NotPartOfWallet).
C12_Witness ==
    /\ last.op = "poll_ledger" /\ last.probe.version = <<2, 1, 0>>
    /\ WalletUsed = "W1" /\ FingerprintRead /\ last.probe.fp = "FP2"
    /\ NotPartOfWalletRecord

IsJade == last.op \in {"poll_jade", "unlock_jade"}

\* get_info was asked and answered.
JadeInfoRead ==
    last.probe.open_ok /\ last.probe.auth_ok /\ last.probe.info_ok

WrongNetworkRecord ==
    /\ last.ok /\ Len(last.hws) = 1
    /\ last.hws[1].tag = "Unsupported"
    /\ last.hws[1].reason = "WrongNetwork"
    /\ last.hws[1].id = last.id

\* C13 as stated: a Jade is classified Unsupported(WrongNetwork) exactly when
\* its network configuration does not fit the requested network.
C13_WrongNetworkIffUnfit ==
    (IsJade /\ JadeInfoRead) =>
        (WrongNetworkRecord <=> JadeNetworkUnfit(NetworkUsed, last.probe))

\* C13 amended: an unfit network configuration gives Unsupported(WrongNetwork)
\* whatever the lock state; with a fitting one the record is WrongNetwork only
\* when the device is Ready and get_master_fingerprint answers
\* NetworkMismatch; a device configured All is never unfit.
C13_WrongNetwork ==
    (IsJade /\ JadeInfoRead) =>
        /\ JadeNetworkUnfit(NetworkUsed, last.probe) => WrongNetworkRecord
        /\ ~JadeNetworkUnfit(NetworkUsed, last.probe) =>
              (WrongNetworkRecord <=>
                  (last.probe.jade_state = "Ready" /\ last.probe.fp = "NetworkMismatch"))
        /\ last.probe.jade_networks = "All" => ~JadeNetworkUnfit(NetworkUsed, last.probe)

\* A locked Jade configured for mainnet only is scanned for Testnet and is
\* reported Unsupported(WrongNetwork), not Locked.
C13_Witness ==
    /\ last.op = "poll_jade" /\ JadeInfoRead
    /\ hw.network = "Testnet" /\ last.probe.jade_networks = "Main"
    /\ last.probe.jade_state = "Locked"
    /\ WrongNetworkRecord

IsLedger == last.op \in {"poll_ledger", "poll_ledger_simulator"}

VersionRecord ==
    /\ Len(last.hws) = 1
    /\ last.hws[1].tag = "Unsupported"
    /\ last.hws[1].reason = "Version"
    /\ last.hws[1].version = last.probe.version

\* C14: a Ledger (HID or simulator) whose fingerprint was read is classified
\* Unsupported(Version) if and only if its version is unknown or
\* lexicographically below (2, 1, 0), and ledger_version_supported is the
\* lexicographic comparison with (2, 1, 0) on every version.
C14_LedgerVersion ==
    (IsLedger /\ FingerprintRead) =>
        LET v == last.probe.version
            below == v = NoVersion \/ ~LexAtLeast(v, <<2, 1, 0>>)
        IN /\ VersionRecord <=> below
           /\ LedgerVersionSupported(v) <=> ~below
           /\ v \in {<<2, 2, 0>>, <<2, 1, 0>>} => ~VersionRecord
           /\ v \in {<<1, 9, 0>>, <<2, 0, 9>>, NoVersion} => VersionRecord

\* A Ledger of version 2.0.9 whose fingerprint was read is reported
\* Unsupported(Version).
C14_Witness ==
    /\ last.op = "poll_ledger" /\ FingerprintRead
    /\ last.probe.version = <<2, 0, 9>>
    /\ VersionRecord

\* C15: is_compatible_with_tapminiscript follows the table: Specter and
\* SpecterSimulator are compatible for every version, the unknown one included;
\* a kind that is not in the table is compatible for none; Ledger 2.2.0 is
\* compatible and Ledger 2.1.9 is not.
C15_FollowsTable ==
    last.op = "is_compatible_with_tapminiscript" =>
        /\ last.kind \in {"Specter", "SpecterSimulator"} => last.ret
        /\ last.kind \in {"Jade", "BitBox02", "LedgerSimulator"} => ~last.ret
        /\ (last.kind = "Ledger" /\ last.version = <<2, 2, 0>>) => last.ret
        /\ (last.kind = "Ledger" /\ last.version = <<2, 1, 9>>) => ~last.ret

\* A Specter of unknown version has been found compatible.
C15_Witness ==
    /\ last.op = "is_compatible_with_tapminiscript"
    /\ last.kind = "Specter" /\ last.version = NoVersion /\ last.ret

\* The minimum version of the kinds that have one.
MinimumOf(kind) == IF kind = "Ledger" THEN <<2, 2, 0>> ELSE <<6, 3, 3>>

\* C16: for Ledger (2.2.0) and Coldcard (6.3.3) the answer is true if and only
\* if the version is known and lexicographically at or above the minimum.
C16_MinimumInclusive ==
    (last.op = "is_compatible_with_tapminiscript" /\ last.kind \in {"Ledger", "Coldcard"})
    => (last.ret <=> (last.version # NoVersion
                        /\ LexAtLeast(last.version, MinimumOf(last.kind))))

\* A Coldcard of version 6.3.3, the minimum itself, has been found compatible.
C16_Witness ==
    /\ last.op = "is_compatible_with_tapminiscript"
    /\ last.kind = "Coldcard" /\ last.version = <<6, 3, 3>> /\ last.ret

\* The number of unlock handles the records of s hold.
Held(s) == Cardinality({i \in 1..Len(s) : s[i].tag = "Locked" /\ s[i].device # None})

\* C21: a reconciliation dispatches one unlock task for each handle held by a
\* record it keeps or appends, and leaves no handle in the list; the same
\* message handled again (its records share the handles already taken)
\* dispatches nothing.  No other step dispatches a task.
C21_HandleTakenOnce ==
    [][/\ last'.op \in {"List", "Replay"} =>
             /\ Held(list') = 0
             /\ BagCardinality(tasks') =
                    BagCardinality(tasks)
                    + Held(SelectSeq(list, LAMBDA h : Contains(last'.still, h.id)))
                    + (IF last'.op = "List" THEN Held(last'.new) ELSE 0)
       /\ last'.op \notin {"List", "Replay"} =>
             BagCardinality(tasks') <= BagCardinality(tasks)]_vars

\* A message that carried a Locked record has been handled a second time, and
\* the only task in flight is the one its first handling dispatched.
C21_Witness ==
    /\ last.op = "Replay"
    /\ Held(last.new) = 1
    /\ HasTag(list, last.new[1].id, {"Locked"})
    /\ BagCardinality(tasks) = 1

\* A Jade on the bench: it is locked, unlocked, unplugged and plugged again.
NextDeliver == Devices({"jade-1"})

\* The tasks the registry can dispatch on that bench.
UnlockTasks ==
    {UnlockTask([id |-> id, device |-> KindOfId(id)], "Bitcoin", None) :
        id \in {"jade-1"}}

\* The runtime polls every future it was handed until it completes.
Deliver(t) ==
    /\ t \in BagToSet(tasks)
    /\ \E res \in UnlockResults(t) : Unlocked(t, res)

SpecDeliver ==
    Init /\ [][NextDeliver]_vars /\ \A t \in UnlockTasks : WF_vars(Deliver(t))

PendingLists == {listQ[i] : i \in {j \in 1..Len(listQ) : listQ[j].type = "List"}}

\* The poll loop holds id to be connected and already reported, and every
\* pending message says so too.
HeldConnected(id) ==
    /\ id \in plugged
    /\ Contains(hw.connected_supported_hws, id)
    /\ \A m \in PendingLists : Contains(m.still, id) /\ id \notin IdsOf(m.new)

\* The number of unlock tasks in flight for id.
TasksFor(bag, id) ==
    LET ts == {t \in BagToSet(bag) : t.id = id}
        RECURSIVE Sum(_)
        Sum(S) == IF S = {} THEN 0
                  ELSE LET t == CHOOSE x \in S : TRUE
                       IN CopiesIn(t, bag) + Sum(S \ {t})
    IN Sum(ts)

\* The registry has dropped id after a failed unlock and nothing retries it.
Given_Up(id) == HeldConnected(id) /\ id \notin IdsOf(list)

\* C23: the failure of an unlock task for a connected device drops its
\* record, and from then on, for as long as the device stays plugged, no
\* cycle reports the id as new, the registry does not list it again, and no
\* unlock task is dispatched for it.
C23_NoRetry ==
    [][\A id \in Ids :
          /\ (/\ last'.op = "Unlocked" /\ ~last'.res.ok /\ last'.id = id
              /\ id \in IdsOf(list) /\ HeldConnected(id)) => Given_Up(id)'
          /\ (Given_Up(id) /\ id \in plugged') =>
                /\ Given_Up(id)'
                /\ TasksFor(tasks', id) <= TasksFor(tasks, id)]_vars

\* The unlock of the Jade has failed, the Jade has stayed plugged, and a later
\* cycle's message, listing the Jade as still connected, has been handled
\* without bringing its record back.
C23_Witness ==
    /\ last.op = "List"
    /\ Contains(last.still, "jade-1")
    /\ "jade-1" \notin IdsOf(prevList)
    /\ Given_Up("jade-1")

\* The tasks in flight that their owner can abort.  update hands each future
\* to Command::perform and returns the batch: neither the registry nor the
\* Locked record keeps a handle on the task, and the registry has no message
\* or operation that ends a task before it completes.
Abortable(bag) == {}

\* C24: every unlock task in flight can be aborted by its owner.
C24_TaskAbortable == \A t \in BagToSet(tasks) : t \in Abortable(tasks)

\* The poll loop asked to poll for any destination.
NextDest ==
    \/ Plug("jade-1")
    \/ Unplug("jade-1")
    \/ \E dest \in Destinations : PollHw(dest)
    \/ HwRefreshCall
    \/ HwRefreshRecv
    \/ HwRefreshReturn
    \/ UpdateError
    \/ UpdateList

SpecDest == Init /\ [][NextDest]_vars

\* C25: every cycle started by a Poll request, whatever its destination, ends
\* with exactly one message delivered to the application.
C25_OneEventPerPoll ==
    [][poller'.scanning < poller.scanning => Len(listQ') = Len(listQ) + 1]_vars

\* C26: once a successful completion for a tracked Locked record is handled,
\* the record at that position has the same id and is Supported or
\* Unsupported, never Locked again, and no record was added or removed.
C26_ResolvedInPlace ==
    (/\ last.op = "Unlocked" /\ last.res.ok
     /\ LockedIdx(prevList, last.id) # {}) =>
        LET k == Min(LockedIdx(prevList, last.id))
        IN /\ Len(list) = Len(prevList)
           /\ list[k].id = last.id
           /\ list[k].tag \in {"Supported", "Unsupported"}

\* C27: right after a List reconciliation every tracked Supported record, and
\* right after a successful unlock replacement the replacing record if it is
\* Supported, has the alias the registry's table gives its fingerprint (None
\* when the table has none), whatever alias the scanner or the task gave it.
C27_AliasFromTable ==
    /\ last.op = "List" =>
          \A i \in 1..Len(list) :
             list[i].tag = "Supported" =>
                list[i].alias = AliasGet(aliases, list[i].fingerprint)
    /\ (/\ last.op = "Unlocked" /\ last.res.ok
        /\ LockedIdx(prevList, last.id) # {}) =>
          LET h == list[Min(LockedIdx(prevList, last.id))]
          IN h.tag = "Supported" => h.alias = AliasGet(aliases, h.fingerprint)

\* The unlock task of a tracked Locked Jade has delivered a Supported record
\* without alias while the table has a label for its fingerprint.
C27_Witness ==
    /\ last.op = "Unlocked" /\ last.res.ok
    /\ last.res.hw.tag = "Supported"
    /\ LockedIdx(prevList, last.id) # {}
    /\ AliasGet(aliases, last.res.hw.fingerprint) # None
    /\ last.res.hw.alias # AliasGet(aliases, last.res.hw.fingerprint)
    /\ list[Min(LockedIdx(prevList, last.id))].tag = "Supported"

\* C28: after a List reconciliation the list ends with the message's new
\* records, in the message's order, and the records before them are records
\* tracked before, in the relative order they had.
C28_OrderKept ==
    last.op = "List" =>
        LET n == Len(list) - Len(last.new)
        IN /\ n >= 0
           /\ \A k \in 1..Len(last.new) : Core(list[n + k]) = Core(last.new[k])
           /\ \A a, b \in 1..n :
                 a < b => \E i, j \in 1..Len(prevList) :
                             /\ i < j
                             /\ Core(prevList[i]) = Core(list[a])
                             /\ Core(prevList[j]) = Core(list[b])

\* A reconciliation kept the Ledger's record and appended the Jade's after it,
\* although the Jade's scanner runs first; the next one kept both in place.
C28_Witness ==
    /\ last.op = "List"
    /\ Len(prevList) = 2 /\ Len(list) = 2 /\ last.new = <<>>
    /\ list[1].id = "ledger-1" /\ list[2].id = "jade-1"

\* The place in hw_poll of the scanner that produces records of a kind: the
\* Specter simulator, Specter, Jade, the Ledger simulator, Ledger, then the
\* pass over the HID devices for BitBox02 and Coldcard.
ScannerRank(kind) ==
    CASE kind = "SpecterSimulator" -> 1
      [] kind = "Specter" -> 2
      [] kind = "Jade" -> 3
      [] kind = "LedgerSimulator" -> 4
      [] kind = "Ledger" -> 5
      [] kind \in {"BitBox02", "Coldcard"} -> 6

FingerprintFailed ==
    /\ last.op \in {"poll_ledger", "poll_ledger_simulator", "poll_hwi"}
    /\ last.probe.fp = "Err"
    /\ IF IsLedger THEN last.probe.connect = "Ok"
       ELSE last.probe.open = "Ok" /\ last.probe.alive

\* C30, as claimed: a Specter, a Coldcard or a Ledger whose fingerprint cannot
\* be read gives no record in the cycle.
C30_FailureGivesNoRecord == FingerprintFailed => last.hws = <<>>

\* C30, amended: a Specter or a Coldcard whose fingerprint cannot be read
\* gives no record in the cycle; a Ledger, on HID or simulated, whose
\* fingerprint cannot be read gives one record, Unsupported with reason
\* Version and no version.
C30_FailureByKind ==
    FingerprintFailed =>
        IF IsLedger
        THEN /\ Len(last.hws) = 1
             /\ last.hws[1].tag = "Unsupported"
             /\ last.hws[1].kind \in {"Ledger", "LedgerSimulator"}
             /\ last.hws[1].reason = "Version"
             /\ last.hws[1].version = NoVersion
        ELSE last.hws = <<>>

\* A Specter or Coldcard that answered the scanner and failed to give its
\* fingerprint has been scanned.
C30_Witness ==
    /\ last.op = "poll_hwi"
    /\ FingerprintFailed
    /\ last.hws = <<>>

\* A List reconciliation has visited a kept Locked record whose handle an
\* earlier reconciliation had taken.
TakenHandleVisited ==
    /\ last.op = "List"
    /\ \E i \in 1..Len(prevList) :
          /\ prevList[i].tag = "Locked"
          /\ prevList[i].device = None
          /\ Contains(last.still, prevList[i].id)

\* C31: a reconciliation that comes to take the handle of a Locked record a
\* second time fails with InvalidState.
C31_ReuseIsInvalidState == TakenHandleVisited => last.ret = "InvalidState"

\* The serial ports: a Specter, a Jade, and a candidate Jade port on which
\* nothing answers.
NextSerial == Devices({"specter-1", "jade-1", "jade-2"})

SpecSerial == Init /\ [][NextSerial]_vars

\* C32: no serial port, whatever it fails to answer, keeps a scan cycle from
\* completing.
C32_NoPortHangsCycle == ~poller.hung

\* The Supported records a classification has produced.
SupportedMade ==
    IF IsScan \/ IsUnlock
    THEN {last.hws[i] : i \in {j \in 1..Len(last.hws) : last.hws[j].tag = "Supported"}}
    ELSE {}

\* The wallet is supplied and holds a stored token for the fingerprint.
TokenStored(w, fp) == w # None /\ fp \in WalletOf(w).hardware_wallets

\* C33, as claimed: every Supported record a classification produces says
\* whether the descriptor is registered, and a Ledger's says true exactly when
\* the wallet is supplied and holds a stored token for its fingerprint.
C33_EveryRecordSaysRegistered ==
    \A h \in SupportedMade :
       /\ h.registered \in {"true", "false"}
       /\ IsLedger => (h.registered = "true" <=> TokenStored(WalletUsed, h.fingerprint))

\* C33, amended: a Supported record made by HardwareWallet::new (Specter,
\* Specter simulator, Coldcard) has registered None; one made for a Jade, a
\* BitBox02 or a Ledger says true or false, and a Ledger's says true exactly
\* when the wallet is supplied and holds a stored token for its fingerprint.
C33_RegisteredByKind ==
    \A h \in SupportedMade :
       /\ IF last.op = "poll_hwi" THEN h.registered = None
          ELSE h.registered \in {"true", "false"}
       /\ IsLedger => (h.registered = "true" <=> TokenStored(WalletUsed, h.fingerprint))

\* A Ledger whose fingerprint has a stored token in the wallet has been
\* classified Supported and registered.
C33_Witness ==
    /\ last.op = "poll_ledger"
    /\ \E h \in SupportedMade :
          h.registered = "true" /\ TokenStored(hw.wallet, h.fingerprint)

\* The message just handled is the completion of a task dispatched before
\* set_network emptied the registry: every record tracked since then was
\* scanned on a later connection than the one whose handle the task holds.
StaleCompletion ==
    /\ last.op = "Unlocked"
    /\ last.task.network # network

\* C34: the completion of an unlock task of an earlier connection neither
\* removes nor replaces the record a later connection has under the same id.
C34_StaleCompletionIgnored == StaleCompletion => list = prevList

\* A Ledger on the bench, which needs no unlock task, and the application's
\* set_network.
NextRenetwork ==
    \/ Plug("ledger-1")
    \/ Unplug("ledger-1")
    \/ HwPoll
    \/ UpdateError
    \/ UpdateList
    \/ \E n \in Networks : SetNetwork(n)

SpecRenetwork == Init /\ [][NextRenetwork]_vars

\* C35: a cycle that runs while the registry holds no record of a connected
\* device that needs no unlock, and no message is waiting to be handled, does
\* not merely list the device as still connected, set_network or not.
C35_NotMerelyStill ==
    [][(/\ listQ = <<>> /\ Len(listQ') = 1 /\ listQ'[1].type = "List") =>
          \A id \in plugged :
             (KindOfId(id) = "Ledger" /\ id \notin IdsOf(list))
                => ~Contains(listQ'[1].still, id)]_vars

\* C36: a cycle that runs while no message is waiting to be handled never
\* carries in still the id of a record the registry tracks as Unsupported,
\* wherever that record came from: the device is classified again.
C36_UnsupportedRescanned ==
    [][(/\ listQ = <<>> /\ Len(listQ') = 1 /\ listQ'[1].type = "List") =>
          \A i \in 1..Len(list) :
             list[i].tag = "Unsupported" => ~Contains(listQ'[1].still, list[i].id)]_vars

\* The ids of the Locked and Supported records of a new list, in order.
ReportedIds(new) ==
    LET keep == SelectSeq(new, LAMBDA h : h.tag \in {"Locked", "Supported"})
    IN [i \in 1..Len(keep) |-> keep[i].id]

\* C37: between two cycles state.hws and state.still are empty, also after a
\* cycle that ended in an Error; and the List message a cycle has just
\* produced holds only ids enumerated in that cycle, none both in still and
\* in new, and connected_supported_hws is its still ids followed by the ids of
\* its new Locked and Supported records.
C37_CycleStartsEmpty ==
    /\ hw.hws = <<>> /\ hw.still = <<>>
    /\ (last.op = "hw_refresh" /\ last.ret = "List") =>
          LET m == listQ[Len(listQ)]
          IN /\ \A i \in 1..Len(m.still) : Contains(last.scanned, m.still[i])
             /\ \A i \in 1..Len(m.new) : Contains(last.scanned, m.new[i].id)
             /\ \A i \in 1..Len(m.still) : m.still[i] \notin IdsOf(m.new)
             /\ hw.connected_supported_hws = m.still \o ReportedIds(m.new)

\* A cycle run by hw_refresh after the one that reported the Jade: its message
\* lists the Jade in still and nothing as new.
C37_Witness ==
    /\ last.op = "hw_refresh" /\ last.ret = "List"
    /\ listQ[Len(listQ)].still = <<"jade-1">>
    /\ listQ[Len(listQ)].new = <<>>
    /\ hw.connected_supported_hws = <<"jade-1">>

\* Every tracked Supported record shows the alias the table has for its
\* fingerprint.
InStep(l, tbl) ==
    \A i \in 1..Len(l) :
       l[i].tag = "Supported" => l[i].alias = AliasGet(tbl, l[i].fingerprint)

\* C38, as claimed: in every state a List, an Unlocked or a set_alias leaves,
\* whatever load_aliases or with_wallet came before, every tracked Supported
\* record shows the alias of the table.
C38_AlwaysInStep ==
    last.op \in {"List", "Unlocked", "set_alias"} => InStep(list, aliases)

\* C38, amended: a List reconciliation brings every tracked Supported record
\* in step with the table, and from a state where they are in step a List, an
\* Unlocked or a set_alias leaves them in step: set_alias(fg, a) sets a on the
\* records of fg and clears it on the others.
C38_KeptInStep ==
    [][/\ last'.op = "List" => InStep(list', aliases')
       /\ (InStep(list, aliases) /\ last'.op \in {"Unlocked", "set_alias"})
             => InStep(list', aliases')]_vars

\* set_alias has given to another fingerprint the alias a tracked Supported
\* record showed: the record shows none now, as the table says.
C38_Witness ==
    /\ last.op = "set_alias"
    /\ InStep(prevList, prevAliases)
    /\ \E i \in 1..Len(list) :
          /\ list[i].tag = "Supported"
          /\ list[i].fingerprint # last.fg
          /\ prevList[i].alias = last.alias
          /\ list[i].alias = None
    /\ InStep(list, aliases)

(***************************************************************************)
(* The export modal: ExportModal in app/state/export.rs.                   *)
(***************************************************************************)

\* The files the save dialog can return.
ExportPaths == {"txs-1.csv", "txs-2.csv"}

\* ExportState::Started | ExportState::Progress(_)
ExportRunning(st) == st \in {"Started", "Progress"}

\* ExportModal::subscription: Some exactly when a path is chosen and the state
\* is Started or Progress(_).
Subscription(m) == m.path # None /\ ExportRunning(m.state)

\* ExportModal::start
Start(m) == [m EXCEPT !.state = "Started"]

\* ExportModal::stop: only a stored handle is taken and aborted, and only then
\* is the state changed.  Aborting a task that has finished changes nothing.
Stop(m, st) ==
    IF m.handle # None
    THEN [m EXCEPT !.handle = None, !.state = st,
                   !.task = IF @ = "running" THEN "aborted" ELSE @]
    ELSE m

\* A step of the modal leaves the registry and the poll loop alone.
ModalStep(name) ==
    /\ last' = Op(name, "Ok")
    /\ prevList' = list /\ prevAliases' = aliases
    /\ UNCHANGED <<lastSetAlias, loadedOneToOne>>
    /\ UNCHANGED <<world, hw, listQ, tasks, registry, poller>>

\* update, ExportMessage::Path(Some(path)): the path is stored and start() run.
ExportPath(path) ==
    /\ modal' = Start([modal EXCEPT !.path = path])
    /\ ModalStep("Path")

\* update, ExportMessage::Path(None): only a Close command is returned.
ExportNoPath ==
    /\ modal' = modal
    /\ ModalStep("NoPath")

\* The subscription being Some, the runtime runs it: the export task starts.
ExportSpawn ==
    /\ Subscription(modal)
    /\ modal.task # "running"
    /\ modal' = [modal EXCEPT !.task = "running", !.sent = FALSE]
    /\ ModalStep("Spawn")

\* update, ExportProgress::Started(handle): the first message of the task.
ExportStarted ==
    /\ modal.task = "running"
    /\ ~modal.sent
    /\ modal' = [modal EXCEPT !.handle = "handle", !.state = "Progress",
                              !.progress = 0, !.sent = TRUE]
    /\ ModalStep("Started")

\* update, ExportProgress::Progress(p): kept only in state Progress(_).
ExportProgressed(p) ==
    /\ modal.task = "running"
    /\ modal.sent
    /\ modal' = IF modal.state = "Progress"
                THEN [modal EXCEPT !.progress = p]
                ELSE modal
    /\ ModalStep("Progress")

\* update, ExportProgress::Finished | ExportProgress::Ended
ExportFinished ==
    /\ modal.task = "running"
    /\ modal.sent
    /\ modal' = [modal EXCEPT !.state = "Ended", !.task = "done"]
    /\ ModalStep("Finished")

\* update, ExportProgress::Error(e)
ExportError ==
    /\ modal.task = "running"
    /\ modal' = [modal EXCEPT !.error = TRUE]
    /\ ModalStep("Error")

\* update, ExportMessage::UserStop
UserStop ==
    /\ modal' = Stop(modal, "Aborted")
    /\ ModalStep("UserStop")

\* update, ExportMessage::TimedOut
TimedOut ==
    /\ modal' = Stop(modal, "TimedOut")
    /\ ModalStep("TimedOut")

NextExport ==
    \/ \E path \in ExportPaths : ExportPath(path)
    \/ ExportNoPath
    \/ ExportSpawn
    \/ ExportStarted
    \/ \E p \in 1..ProgressSteps : ExportProgressed(p)
    \/ ExportFinished
    \/ ExportError
    \/ UserStop
    \/ TimedOut

SpecExport == Init /\ [][NextExport]_vars

\* C39: once an export has been started (state Started or Progress), a UserStop
\* message puts the modal in state Aborted and a TimedOut message in state
\* TimedOut, the export task no longer runs, its handle is dropped and
\* subscription() returns None, whether the message comes before or after
\* ExportProgress::Started(handle).
C39_StopAlwaysStops ==
    [][/\ (last'.op = "UserStop" /\ ExportRunning(modal.state))
            => /\ modal'.state = "Aborted"
               /\ modal'.handle = None
               /\ modal'.task # "running"
               /\ ~Subscription(modal')
       /\ (last'.op = "TimedOut" /\ ExportRunning(modal.state))
            => /\ modal'.state = "TimedOut"
               /\ modal'.handle = None
               /\ modal'.task # "running"
               /\ ~Subscription(modal')]_vars

====
